---- MODULE Spec2Model ----
(***************************************************************************)
(* Model of the two scraping scripts of the repository:                    *)
(*   scripts/build_cfm_weekly.py   (weekly curriculum page -> JSON file)   *)
(*   scripts/unit_history_sync.py  (photo-story gallery -> folders,        *)
(*                                  story.json, manifest, zip)             *)
(*                                                                         *)
(* Text is modelled as a sequence of lexemes: a srcset attribute is a      *)
(* sequence over url pieces, " ", "," and width descriptors; the functions *)
(* split, strip and match that sequence as the code does with the string.  *)
(* A URL with a query is a record of its components as written (scheme as  *)
(* written, the query as the sequence of its "k=v" fields).                *)
(***************************************************************************)
EXTENDS Integers, Sequences, FiniteSets, TLC

VARIABLES
    \* ---- pure helper functions under test (SpecSrcset, SpecImage, SpecStrip)
    arg,          \* the argument the function is called with
    ret,          \* what the last call returned
    calls,        \* number of calls made so far
    \* ---- build_cfm_weekly.py
    cfmPc,        \* "idle" | "done" | "failed" : position of main()
    cfmFetch,     \* what the last requests.get / raise_for_status did
    cfmFile,      \* data/come_follow_me_this_week.json : NoFile or its payload
    \* ---- unit_history_sync.py
    pc,           \* position of main()
    lastRun,      \* how the previous run ended: "none" | "done" | "failed"
    skipExisting, \* SKIP_EXISTING_FOLDERS
    total,        \* main: total
    i,            \* main: loop index i
    gridCount,    \* cards.count() after the last reload of the grid
    all_meta,     \* main: all_meta
    processed,    \* main: processed
    skipped,      \* main: skipped
    story,        \* download_current_story: the story being handled
    attempts,     \* calls of download_file_via_context for the current story
    fs,           \* OUT_DIR: story folder -> its content
    manifest,     \* MANIFEST_PATH : NoFile or the manifest
    zip,          \* ZIP_NAME : NoFile or the archive
    event,        \* what the page showed in the last step
    dbg           \* the save_debug call of the last step

pureVars == <<arg, ret, calls>>
cfmVars  == <<cfmPc, cfmFetch, cfmFile>>
syncVars == <<pc, lastRun, skipExisting, total, i, gridCount, all_meta, processed,
              skipped, story, attempts, fs, manifest, zip, event, dbg>>
vars     == <<arg, ret, calls, cfmPc, cfmFetch, cfmFile, pc, lastRun, skipExisting,
              total, i, gridCount, all_meta, processed, skipped, story,
              attempts, fs, manifest, zip, event, dbg>>

\* ------------------------------------------------------------------ bounds
MaxLen == 7          \* lexemes of a srcset string
MaxImgs == 3         \* <img> tags of a document
MaxFields == 3       \* fields of a query string
MaxCards == 2        \* story cards on the grid
MaxImages == 2       \* image URLs found on a story page

NoFile == [absent |-> TRUE]

\* A document carries the time it was written (generated_at_utc,
\* exported_at_utc, the file's mtime): the model keeps whether that was in the
\* current run of its script or in an earlier one.
ThisRun    == "this_run"
EarlierRun == "earlier_run"

\* the start of a new run: what is on disk is from an earlier run
Aged(file) == IF file = NoFile THEN NoFile ELSE [file EXCEPT !.written = EarlierRun]

\* Of a story.json of an earlier run the model keeps only that it is one, of
\* the image files of a folder only those the current run wrote, and of an
\* earlier run's manifest only the folders of the stories it lists.
OldStoryJson == [written |-> EarlierRun]
StoryFolders(stories) == {stories[k].folder : k \in 1..Len(stories)}
AgedManifest(m) ==
    IF m = NoFile THEN NoFile
    ELSE IF m.written = EarlierRun THEN m
    ELSE [written |-> EarlierRun, folders |-> StoryFolders(m.stories)]
AgedFolder(d) ==
    [exists |-> d.exists,
     json   |-> IF d.json = NoFile THEN NoFile ELSE OldStoryJson,
     files  |-> {}]
Empty  == <<>>       \* the empty string

\* ------------------------------------------------------ text as lexemes
SP    == " "
COMMA == ","

RECURSIVE Strings(_, _)
Strings(A, n) ==
    IF n = 0 THEN {<<>>}
    ELSE LET S == Strings(A, n - 1)
         IN  S \cup {Append(s, a) : s \in {t \in S : Len(t) = n - 1}, a \in A}

\* "1w", "2w": a token that starts with digits followed by "w"
IsWidth(l) == l \in {"1w", "2w"}
WidthOf(l) == IF l = "1w" THEN 1 ELSE 2

\* str.split(","): the pieces between commas, empty ones included
RECURSIVE SplitComma(_)
SplitComma(s) ==
    IF s = <<>> THEN << <<>> >>
    ELSE IF Head(s) = COMMA THEN << <<>> >> \o SplitComma(Tail(s))
    ELSE LET r == SplitComma(Tail(s))
         IN  << <<Head(s)>> \o Head(r) >> \o Tail(r)

RECURSIVE LStrip(_)
LStrip(p) == IF p # <<>> /\ Head(p) = SP THEN LStrip(Tail(p)) ELSE p

RECURSIVE RStrip(_)
RStrip(p) ==
    IF p # <<>> /\ p[Len(p)] = SP THEN RStrip(SubSeq(p, 1, Len(p) - 1)) ELSE p

\* str.strip()
Strip(p) == RStrip(LStrip(p))

\* the longest prefix without whitespace: \S+ at the start, or p.split()[0]
RECURSIVE FirstRun(_)
FirstRun(p) ==
    IF p = <<>> \/ Head(p) = SP THEN <<>>
    ELSE <<Head(p)>> \o FirstRun(Tail(p))

\* re.match(r"(\S+)\s+(\d+)w", p): a url, whitespace, then a width
ReMatch(p) ==
    LET u    == FirstRun(p)
        rest == SubSeq(p, Len(u) + 1, Len(p))
        tok  == LStrip(rest)
    IN  IF /\ u # <<>>
           /\ rest # <<>> /\ Head(rest) = SP
           /\ tok # <<>> /\ IsWidth(Head(tok))
        THEN [ok |-> TRUE, url |-> u, width |-> WidthOf(Head(tok))]
        ELSE [ok |-> FALSE, url |-> <<>>, width |-> 0]

\* list.sort(key=lambda x: x[0]): stable, ascending by width
RECURSIVE InsertByWidth(_, _)
InsertByWidth(sorted, c) ==
    IF sorted = <<>> THEN <<c>>
    ELSE LET last == sorted[Len(sorted)]
         IN  IF last.width <= c.width THEN Append(sorted, c)
             ELSE Append(InsertByWidth(SubSeq(sorted, 1, Len(sorted) - 1), c), last)

RECURSIVE SortByWidth(_)
SortByWidth(cs) ==
    IF cs = <<>> THEN <<>>
    ELSE InsertByWidth(SortByWidth(SubSeq(cs, 1, Len(cs) - 1)), cs[Len(cs)])

RECURSIVE SelectSeqNonEmpty(_)
SelectSeqNonEmpty(ps) ==
    IF ps = <<>> THEN <<>>
    ELSE IF Head(ps) = <<>> THEN SelectSeqNonEmpty(Tail(ps))
    ELSE <<Head(ps)>> \o SelectSeqNonEmpty(Tail(ps))

\* ------------------------------------------- unit_history_sync.py helpers

\* parts = [p.strip() for p in srcset.split(",") if p.strip()]
SrcsetParts(srcset) ==
    LET raw == SplitComma(srcset)
    IN  SelectSeqNonEmpty([k \in 1..Len(raw) |-> Strip(raw[k])])

\* the loop body: a width entry, or (0, first token)
SyncCandidate(p) ==
    LET m == ReMatch(p)
    IN  IF m.ok THEN [width |-> m.width, url |-> m.url]
        ELSE [width |-> 0, url |-> FirstRun(p)]

pick_largest_from_srcset(srcset) ==
    IF srcset = <<>> THEN Empty
    ELSE LET parts      == SrcsetParts(srcset)
             candidates == [k \in 1..Len(parts) |-> SyncCandidate(parts[k])]
             sorted     == SortByWidth(candidates)
         IN  IF candidates = <<>> THEN Empty
             ELSE sorted[Len(sorted)].url

\* --------------------------------------------- build_cfm_weekly.py helpers
BASE == "https://www.churchofjesuschrist.org"

\* a lexeme that opens an absolute URL (one with a scheme)
IsAbsolute(l) == l \in {"https://cdn/s", "https://cdn/t"}

\* urljoin(BASE, u), "" for an empty u
absolute_url(u) ==
    IF u = <<>> THEN Empty
    ELSE IF IsAbsolute(Head(u)) THEN u
    ELSE <<BASE>> \o u

\* the candidates of _largest_from_srcset: only the parts the pattern matches
RECURSIVE CfmCandidates(_)
CfmCandidates(raw) ==
    IF raw = <<>> THEN <<>>
    ELSE LET m == ReMatch(Strip(Head(raw)))
         IN  (IF m.ok THEN << [width |-> m.width, url |-> m.url] >> ELSE <<>>)
             \o CfmCandidates(Tail(raw))

\* a faulty variant: the candidates are not sorted
_largest_from_srcset_unsorted(srcset) ==
    IF srcset = <<>> THEN Empty
    ELSE LET candidates == CfmCandidates(SplitComma(srcset))
         IN  IF candidates = <<>> THEN Empty
             ELSE candidates[Len(candidates)].url

_largest_from_srcset(srcset) ==
    IF srcset = <<>> THEN Empty
    ELSE LET candidates == CfmCandidates(SplitComma(srcset))
             sorted     == SortByWidth(candidates)
         IN  IF candidates = <<>> THEN Empty
             ELSE sorted[Len(sorted)].url

NoTag == [none |-> TRUE]

pick_best_image_from_tag(img_tag) ==
    IF img_tag = NoTag THEN Empty
    ELSE LET best == _largest_from_srcset(img_tag.srcset)
         IN  IF best # Empty THEN absolute_url(best)
             ELSE IF img_tag.src # Empty THEN absolute_url(img_tag.src)
             ELSE Empty

\* soup.select_one / soup.find: the first tag of the document among those at
\* the positions `at`, None when there is none
FirstTag(soup, at) ==
    IF at = {} THEN NoTag
    ELSE soup[CHOOSE k \in at : \A j \in at : k <= j]

Img1Tags(soup)   == {k \in 1..Len(soup) : soup[k].id = "img1"}
FigureImgs(soup) == {k \in 1..Len(soup) : soup[k].fig}
AnyImgs(soup)    == 1..Len(soup)

pick_first_image(soup) ==
    LET best1 == pick_best_image_from_tag(FirstTag(soup, Img1Tags(soup)))
        best2 == pick_best_image_from_tag(FirstTag(soup, FigureImgs(soup)))
        best3 == pick_best_image_from_tag(FirstTag(soup, AnyImgs(soup)))
    IN  IF best1 # Empty THEN best1
        ELSE IF best2 # Empty THEN best2
        ELSE IF best3 # Empty THEN best3
        ELSE Empty

\* --------------------------------- unit_history_sync.py: query stripping
remove_keys == {"w", "h", "width", "height", "fit", "crop", "rect",
                "q", "quality", "auto", "format", "dpr"}

\* str.lower() on the lexemes the model uses
Lower(x) ==
    CASE x = "W" -> "w"
      [] x = "HTTPS" -> "https"
      [] OTHER -> x

\* urlparse raises ValueError on an unbalanced "[" in the host
UrlparseRaises(url) == url.netloc = "[h"

\* urlparse(url): the scheme comes back lower-cased
urlparse(url) == [url EXCEPT !.scheme = Lower(url.scheme)]

\* parse_qs(query, keep_blank_values=True): key -> its values, keys in the
\* order of their first field; a field without "=" has the value ""
RECURSIVE parse_qs(_)
parse_qs(query) ==
    IF query = <<>> THEN <<>>
    ELSE LET qs == parse_qs(SubSeq(query, 1, Len(query) - 1))
             f  == query[Len(query)]
             at == {k \in 1..Len(qs) : qs[k].key = f.k}
         IN  IF at = {} THEN Append(qs, [key |-> f.k, vals |-> <<f.v>>])
             ELSE [k \in 1..Len(qs) |->
                     IF k \in at THEN [qs[k] EXCEPT !.vals = Append(@, f.v)]
                     ELSE qs[k]]

\* a faulty variant: the keys are compared without lower-casing
RECURSIVE PopRemovedCaseSensitive(_)
PopRemovedCaseSensitive(qs) ==
    IF qs = <<>> THEN <<>>
    ELSE IF Head(qs).key \in remove_keys THEN PopRemovedCaseSensitive(Tail(qs))
    ELSE <<Head(qs)>> \o PopRemovedCaseSensitive(Tail(qs))

\* for k in list(qs.keys()): if k.lower() in remove_keys: qs.pop(k)
RECURSIVE PopRemoved(_)
PopRemoved(qs) ==
    IF qs = <<>> THEN <<>>
    ELSE IF Lower(Head(qs).key) \in remove_keys THEN PopRemoved(Tail(qs))
    ELSE <<Head(qs)>> \o PopRemoved(Tail(qs))

\* urlencode(qs, doseq=True): "k=v" for every value of every key, in order
RECURSIVE urlencode(_)
urlencode(qs) ==
    IF qs = <<>> THEN <<>>
    ELSE [n \in 1..Len(Head(qs).vals) |->
            [k |-> Head(qs).key, eq |-> TRUE, v |-> Head(qs).vals[n]]]
         \o urlencode(Tail(qs))

strip_downscaling_params(url) ==
    IF UrlparseRaises(url) THEN url
    ELSE LET pu      == urlparse(url)
             qs      == parse_qs(pu.query)
             kept    == PopRemoved(qs)
             changed == kept # qs
         IN  IF ~changed THEN url
             ELSE [pu EXCEPT !.query = urlencode(kept)]

\* ------------------------------------------------ build_cfm_weekly.py main
\* date.today().isocalendar().week of the days the model runs on
IsoWeeks == {1, 53}

\* min(int(wk), 52)
iso_week_number(wk) == IF wk < 52 THEN wk ELSE 52

\* what requests.get / raise_for_status can do
FetchOutcomes == {"ok", "request_exception", "http_error"}

\* the pages the site may serve
Pages == { <<>>,
           << [id |-> "img1", fig |-> FALSE,
               srcset |-> <<"/a", SP, "1w">>, src |-> <<"/s">>] >> }

scrape_week(week, soup) ==
    [written          |-> ThisRun,
     week_number      |-> week,
     image_url        |-> pick_first_image(soup)]

\* a faulty variant: OUT_JSON is opened for writing before the page is fetched
cfm_main_opens_first(outcome, old, payload) ==
    IF outcome # "ok"
    THEN [pc |-> "failed", file |-> [written |-> ThisRun]]
    ELSE [pc |-> "done", file |-> payload]

\* main() after the fetch: an exception of scrape_week is re-raised before
\* OUT_JSON is opened; otherwise the payload is written over the file
cfm_main(outcome, old, payload) ==
    IF outcome # "ok"
    THEN [pc |-> "failed", file |-> old]
    ELSE [pc |-> "done", file |-> payload]

\* one run of the script
CfmMain ==
    /\ \E wk \in IsoWeeks, outcome \in FetchOutcomes, soup \in Pages :
          LET r == cfm_main(outcome, Aged(cfmFile),
                            scrape_week(iso_week_number(wk), soup))
          IN  /\ cfmFetch' = outcome
              /\ cfmPc' = r.pc
              /\ cfmFile' = r.file
    /\ UNCHANGED <<pureVars, syncVars>>

CfmInit ==
    /\ cfmPc = "idle"
    /\ cfmFetch = "none"
    /\ cfmFile = NoFile

\* ---------------------------------------------- unit_history_sync.py main
\* the text of a story page's h1 ("" for an empty heading)
PageTitles == {"A", ""}
Folders    == {"A", "Untitled"}

NoStory  == [none |-> TRUE]
NoDbg    == [tag |-> "", png |-> FALSE, html |-> FALSE]
NoFolder == [exists |-> FALSE, json |-> NoFile, files |-> {}]

\* save_debug(page, tag): the screenshot and the HTML dump are each attempted
\* and each may fail silently
save_debug(tag) == {[tag |-> tag, png |-> a, html |-> b] : a, b \in BOOLEAN}

\* guess_story_title_date: the h1's text, "Untitled" without one
guess_story_title(h1, text) == IF h1 /\ text # "" THEN text ELSE "Untitled"

\* safe_name: an empty name becomes "Untitled"
safe_name(name) == IF name = "" THEN "Untitled" ELSE name

\* ensure_dir(story_folder)
ensure_dir(disk, folder) == [disk EXCEPT ![folder].exists = TRUE]

\* for i in range(total): the position after card n - 1
AfterCard(n) == IF n < total THEN "loop" ELSE "finish"

\* a faulty variant: the comparison is off by one
card_gone_off_by_one(idx, count) == idx > count

\* if i >= cards.count(): break
card_gone(idx, count) == idx >= count

\* faulty variants: the skip rule never applies; the flag is not read
should_skip_never(skip, disk, folder) == FALSE
should_skip_ignores_flag(skip, disk, folder) == disk[folder].exists

\* if SKIP_EXISTING_FOLDERS and story_folder.exists()
should_skip(skip, disk, folder) == skip /\ disk[folder].exists

\* a faulty variant: an unclickable card raises
after_click_raises(o, idx) ==
    CASE o = "story_opened" -> [i |-> idx, pc |-> "story"]
      [] OTHER              -> [i |-> idx, pc |-> "failed"]

\* a faulty variant: a bounce to the login page is skipped like a bad click
after_click_ignores_bounce(o, idx) ==
    CASE o = "story_opened" -> [i |-> idx, pc |-> "story"]
      [] OTHER              -> [i |-> idx + 1, pc |-> AfterCard(idx + 1)]

\* the loop body after the clicks: an unclickable card is skipped (continue),
\* a bounce to the login page raises, otherwise the story is downloaded
after_click(o, idx) ==
    CASE o = "cannot_click_card"  -> [i |-> idx + 1, pc |-> AfterCard(idx + 1)]
      [] o = "login_bounce_story" -> [i |-> idx, pc |-> "failed"]
      [] OTHER                    -> [i |-> idx, pc |-> "story"]

\* what open_story_grid can meet
GridOutcomes == {"redirected_to_login", "story_cards_not_found", "cards_shown"}

\* what attempt_headless_login can meet
LoginOutcomes == {"no_credentials", "not_login_page", "login_no_username_field",
                  "login_no_password_field", "login_still_on_login_page",
                  "logged_in"}

\* what clicking a card can lead to
ClickOutcomes == {"cannot_click_card", "login_bounce_story", "story_opened"}

SyncInit ==
    /\ pc = "idle"
    /\ lastRun = "none"
    /\ skipExisting = TRUE
    /\ total = 0
    /\ i = 0
    /\ gridCount = 0
    /\ all_meta = <<>>
    /\ processed = 0
    /\ skipped = 0
    /\ story = NoStory
    /\ attempts = <<>>
    /\ fs = [f \in Folders |-> NoFolder]
    /\ manifest = NoFile
    /\ zip = NoFile
    /\ event = "none"
    /\ dbg = NoDbg

\* main() up to the choice of the browser context
StartRun ==
    /\ pc \in {"idle", "done", "failed"}
    /\ lastRun' = IF pc = "idle" THEN "none" ELSE pc
    /\ \E skip \in BOOLEAN : skipExisting' = skip
    /\ \E storage_state \in BOOLEAN :
          pc' = IF storage_state THEN "grid" ELSE "login"
    /\ total' = 0 /\ i' = 0 /\ gridCount' = 0
    /\ all_meta' = <<>> /\ processed' = 0 /\ skipped' = 0
    /\ story' = NoStory /\ attempts' = <<>>
    /\ event' = "none" /\ dbg' = NoDbg
    /\ fs' = [f \in Folders |-> AgedFolder(fs[f])]
    /\ manifest' = AgedManifest(manifest)
    /\ zip' = Aged(zip)
    /\ UNCHANGED <<pureVars, cfmVars>>

\* attempt_headless_login(page)
Login ==
    /\ pc = "login"
    /\ \E o \in LoginOutcomes :
          /\ event' = o
          /\ IF o \in {"not_login_page", "logged_in"}
             THEN pc' = "grid" /\ dbg' = NoDbg
             ELSE /\ pc' = "failed"
                  /\ IF o = "no_credentials" THEN dbg' = NoDbg
                     ELSE dbg' \in save_debug(o)
    /\ UNCHANGED <<lastRun, skipExisting, total, i, gridCount, all_meta, processed,
                   skipped, story, attempts, fs, manifest, zip, pureVars, cfmVars>>

\* open_story_grid(page); total = get_story_card_count(page); the zero check
OpenGrid ==
    /\ pc = "grid"
    /\ \E o \in GridOutcomes, n \in 0..MaxCards :
          IF o # "cards_shown"
          THEN /\ event' = o /\ dbg' \in save_debug(o)
               /\ pc' = "failed" /\ total' = total
          ELSE /\ total' = n
               /\ IF n <= 0
                  THEN /\ event' = "zero_cards" /\ dbg' \in save_debug("zero_cards")
                       /\ pc' = "failed"
                  ELSE /\ event' = o /\ dbg' = NoDbg
                       /\ pc' = "loop"
    /\ i' = 0
    /\ UNCHANGED <<lastRun, skipExisting, gridCount, all_meta, processed,
                   skipped, story, attempts, fs, manifest, zip, pureVars, cfmVars>>

\* the head of the loop body: reload the grid, stop when card i is gone
Reload ==
    /\ pc = "loop"
    /\ \E o \in GridOutcomes, n \in 0..MaxCards :
          IF o # "cards_shown"
          THEN /\ event' = o /\ dbg' \in save_debug(o)
               /\ pc' = "failed" /\ gridCount' = gridCount
          ELSE /\ gridCount' = n
               /\ dbg' = NoDbg
               /\ IF card_gone(i, n)
                  THEN event' = "count_changed" /\ pc' = "finish"
                  ELSE event' = o /\ pc' = "card"
    /\ story' = NoStory /\ attempts' = <<>>
    /\ UNCHANGED <<lastRun, skipExisting, total, i, all_meta, processed,
                   skipped, fs, manifest, zip, pureVars, cfmVars>>

\* card.click, the fallback click, and the login check after it
ClickCard ==
    /\ pc = "card"
    /\ \E o \in ClickOutcomes :
          /\ event' = o
          /\ IF o = "story_opened" THEN dbg' = NoDbg ELSE dbg' \in save_debug(o)
          /\ i' = after_click(o, i).i
          /\ pc' = after_click(o, i).pc
    /\ UNCHANGED <<lastRun, skipExisting, total, gridCount, all_meta, processed,
                   skipped, story, attempts, fs, manifest, zip, pureVars, cfmVars>>

\* download_current_story up to the image loop: the h1 wait, the folder name,
\* the skip rule, ensure_dir, the lightbox pass and the DOM fallback; a skipped
\* story returns to main, which counts it and moves to the next card
BeginStory ==
    /\ pc = "story"
    /\ \E h1 \in BOOLEAN, text \in PageTitles,
          lightbox \in 0..MaxImages, dom \in 0..MaxImages :
          LET title  == guess_story_title(h1, text)
              folder == safe_name(title)
          IN  /\ IF h1 THEN event' = "none" /\ dbg' = NoDbg
                 ELSE event' = "story_no_h1" /\ dbg' \in save_debug("story_no_h1")
              /\ IF should_skip(skipExisting, fs, folder)
                 THEN /\ story' = [folder |-> folder, skipped_existing_folder |-> TRUE,
                                   scrapes |-> {}, image_count_found |-> 0,
                                   images |-> <<>>]
                      /\ all_meta' = Append(all_meta,
                            [folder |-> folder, skipped_existing_folder |-> TRUE])
                      /\ skipped' = skipped + 1
                      /\ i' = i + 1
                      /\ pc' = AfterCard(i + 1)
                      /\ fs' = fs
                 ELSE /\ fs' = ensure_dir(fs, folder)
                      /\ story' = [folder |-> folder, skipped_existing_folder |-> FALSE,
                                   scrapes |-> IF lightbox > 0 THEN {"lightbox"}
                                               ELSE {"lightbox", "dom"},
                                   image_count_found |->
                                       IF lightbox > 0 THEN lightbox ELSE dom,
                                   images |-> <<>>]
                      /\ pc' = "images"
                      /\ UNCHANGED <<all_meta, skipped, i>>
    /\ attempts' = <<>>
    /\ UNCHANGED <<lastRun, skipExisting, total, gridCount, processed,
                   manifest, zip, pureVars, cfmVars>>

\* a faulty variant: no second attempt
download_no_retry(ok1, ok2) == <<ok1>>

\* download_file_via_context, called once and once more after a failure:
\* the outcomes of the calls made
download_with_retry(ok1, ok2) == IF ok1 THEN <<TRUE>> ELSE <<FALSE, ok2>>

\* one pass of the image loop
DownloadImage ==
    /\ pc = "images"
    /\ Len(story.images) < story.image_count_found
    /\ \E ok1, ok2 \in BOOLEAN :
          LET idx   == Len(story.images) + 1
              tries == download_with_retry(ok1, ok2)
              ok    == tries[Len(tries)]
          IN  /\ attempts' = Append(attempts, tries)
              /\ story' = [story EXCEPT !.images =
                              Append(@, [index |-> idx, downloaded |-> ok])]
              /\ fs' = IF ok
                       THEN [fs EXCEPT ![story.folder].files = @ \cup {idx}]
                       ELSE fs
    /\ event' = "none" /\ dbg' = NoDbg
    /\ UNCHANGED <<pc, lastRun, skipExisting, total, i, gridCount, all_meta, processed,
                   skipped, manifest, zip, pureVars, cfmVars>>

\* the end of download_current_story: story.json is written, and main counts
\* the story and moves to the next card
WriteStory ==
    /\ pc = "images"
    /\ Len(story.images) = story.image_count_found
    /\ fs' = [fs EXCEPT ![story.folder].json =
                 [written |-> ThisRun, image_count_found |-> story.image_count_found,
                  images |-> story.images]]
    /\ all_meta' = Append(all_meta,
          [folder |-> story.folder, skipped_existing_folder |-> FALSE])
    /\ processed' = processed + 1
    /\ i' = i + 1
    /\ pc' = AfterCard(i + 1)
    /\ event' = "none" /\ dbg' = NoDbg
    /\ UNCHANGED <<lastRun, skipExisting, total, gridCount, skipped, story, attempts,
                   manifest, zip, pureVars, cfmVars>>

\* after the loop: the manifest and the zip archive
Finish ==
    /\ pc = "finish"
    /\ manifest' = [written |-> ThisRun,
                    story_count_found_on_grid    |-> total,
                    story_count_downloaded_new   |-> processed,
                    story_count_skipped_existing |-> skipped,
                    stories |-> all_meta]
    /\ zip' = [written |-> ThisRun]
    /\ pc' = "done"
    /\ event' = "none" /\ dbg' = NoDbg
    /\ story' = NoStory /\ attempts' = <<>>
    /\ UNCHANGED <<lastRun, skipExisting, total, i, gridCount, all_meta, processed,
                   skipped, fs, pureVars, cfmVars>>

PureIdle ==
    /\ arg = <<>>
    /\ ret = <<>>
    /\ calls = 0

\* ------------------------------------------------------ the two scripts
\* The scripts share no state (different output files, no common variable), so
\* a behaviour of the pair is an interleaving of a behaviour of each. Spec
\* follows each script on its own: one steps only while the other has not run.
CfmUntouched  == cfmPc = "idle"
SyncUntouched == pc = "idle"

Init == PureIdle /\ CfmInit /\ SyncInit
SyncStart == CfmUntouched /\ StartRun
CfmRun    == SyncUntouched /\ CfmMain

Next ==
    \/ SyncStart
    \/ Login
    \/ OpenGrid
    \/ Reload
    \/ ClickCard
    \/ BeginStory
    \/ DownloadImage
    \/ WriteStory
    \/ Finish
    \/ CfmRun
Spec == Init /\ [][Next]_vars

\* ------------------------------------------- the helper functions, called
ScriptsIdle == CfmInit /\ SyncInit

\* srcset strings: every string of at most MaxLen lexemes
SrcsetAlphabet == {"a", "b", SP, COMMA, "1w", "2w"}

SrcsetInit ==
    /\ arg \in Strings(SrcsetAlphabet, MaxLen)
    /\ ret = Empty
    /\ calls = 0
    /\ ScriptsIdle

PickCall ==
    /\ calls = 0
    /\ ret' = pick_largest_from_srcset(arg)
    /\ calls' = 1
    /\ UNCHANGED <<arg, cfmVars, syncVars>>

SpecSrcset == SrcsetInit /\ [][PickCall]_vars

\* documents: every sequence of at most MaxImgs <img> tags
TagSrcsets == { <<>>,
                <<"/b", SP, "2w", COMMA, SP, "/a", SP, "1w">>,
                <<"/a", COMMA, "/b", SP, "2x">> }
TagSrcs    == { <<>>, <<"https://cdn/s">> }
Tags == [id : {"img1", ""}, fig : BOOLEAN, srcset : TagSrcsets, src : TagSrcs]

ImageInit ==
    /\ arg \in Strings(Tags, MaxImgs)
    /\ ret = Empty
    /\ calls = 0
    /\ ScriptsIdle

ImageCall ==
    /\ calls = 0
    /\ ret' = pick_first_image(arg)
    /\ calls' = 1
    /\ UNCHANGED <<arg, cfmVars, syncVars>>

SpecImage == ImageInit /\ [][ImageCall]_vars

\* URLs: scheme and host as written, a query of at most MaxFields fields
QueryFields == [k : {"w", "W", "a", "b"}, eq : {TRUE}, v : {"", "1"}]
               \cup [k : {"w", "W", "a", "b"}, eq : {FALSE}, v : {""}]
Urls == [scheme : {"https", "HTTPS"}, netloc : {"h", "[h"}, path : {"/p"},
         query : Strings(QueryFields, MaxFields), fragment : {"", "f"}]

StripInit ==
    /\ arg \in Urls
    /\ ret = Empty
    /\ calls = 0
    /\ ScriptsIdle

\* strip_downscaling_params(url)
StripCall ==
    /\ calls = 0
    /\ ret' = strip_downscaling_params(arg)
    /\ calls' = 1
    /\ UNCHANGED <<arg, cfmVars, syncVars>>

\* strip_downscaling_params applied to what the first call returned
StripAgain ==
    /\ calls = 1
    /\ arg' = ret
    /\ ret' = strip_downscaling_params(ret)
    /\ calls' = 2
    /\ UNCHANGED <<cfmVars, syncVars>>

SpecStrip == StripInit /\ [][StripCall \/ StripAgain]_vars

\* ======================================================== properties

\* ---- helpers of the properties
\* the entries of a srcset that declare a width, as positions of its parts
DeclaredIn(parts) == {k \in 1..Len(parts) : ReMatch(parts[k]).ok}

\* u is the url of an entry of largest declared width
IsLargestDeclared(parts, u) ==
    \E k \in DeclaredIn(parts) :
        /\ ReMatch(parts[k]).url = u
        /\ \A j \in DeclaredIn(parts) : ReMatch(parts[j]).width <= ReMatch(parts[k]).width

\* C4: for a non-empty srcset, pick_largest_from_srcset returns the url of the
\* entry of largest declared width, and the first url of the srcset when no
\* entry declares a width.
C4_LargestOrFirst ==
    (calls = 1 /\ arg # <<>>) =>
        LET parts == SrcsetParts(arg)
        IN  IF DeclaredIn(parts) # {} THEN IsLargestDeclared(parts, ret)
            ELSE parts # <<>> => ret = FirstRun(parts[1])

\* ---- C8
\* the parts of a tag's srcset, as _largest_from_srcset reads them
TagParts(t) ==
    LET raw == SplitComma(t.srcset) IN [k \in 1..Len(raw) |-> Strip(raw[k])]

HasWidthEntry(t) == t # NoTag /\ t.srcset # <<>> /\ DeclaredIn(TagParts(t)) # {}

\* the tag yields a non-empty URL
Yields(t) == HasWidthEntry(t) \/ (t # NoTag /\ t.src # Empty)

\* r is the image of tag t: its largest-width srcset candidate when the srcset
\* has a width-declared entry, its src otherwise (resolved against BASE)
ImageOf(t, r) ==
    IF HasWidthEntry(t)
    THEN \E k \in DeclaredIn(TagParts(t)) :
            /\ IsLargestDeclared(TagParts(t), ReMatch(TagParts(t)[k]).url)
            /\ r = absolute_url(ReMatch(TagParts(t)[k]).url)
    ELSE r = absolute_url(t.src)

\* C8: pick_first_image returns the image of the first img#img1 when that tag
\* yields a URL, otherwise that of the first figure img, otherwise that of the
\* first img, otherwise ""; the image of a tag is its largest-width srcset
\* candidate when it has a width-declared entry and its src otherwise.
C8_FirstImage ==
    calls = 1 =>
        LET hero == FirstTag(arg, Img1Tags(arg))
            fig  == FirstTag(arg, FigureImgs(arg))
            any  == FirstTag(arg, AnyImgs(arg))
        IN  IF Yields(hero) THEN ImageOf(hero, ret)
            ELSE IF Yields(fig) THEN ImageOf(fig, ret)
            ELSE IF Yields(any) THEN ImageOf(any, ret)
            ELSE ret = Empty

\* a document whose hero tag yields nothing and whose first figure img has a
\* srcset with the largest width first
C8_Witness ==
    /\ calls = 1
    /\ Len(arg) = 3
    /\ FirstTag(arg, Img1Tags(arg)) # NoTag
    /\ ~Yields(FirstTag(arg, Img1Tags(arg)))
    /\ HasWidthEntry(FirstTag(arg, FigureImgs(arg)))
    /\ ~arg[1].fig
    /\ ret = <<BASE, "/b">>

\* ---- C5
RemovableKey(k) == Lower(k) \in remove_keys
QueryKeys(q) == {q[n].k : n \in 1..Len(q)}

\* the values a query gives for key k, in order
RECURSIVE ValuesOf(_, _)
ValuesOf(q, k) ==
    IF q = <<>> THEN <<>>
    ELSE (IF Head(q).k = k THEN <<Head(q).v>> ELSE <<>>) \o ValuesOf(Tail(q), k)

NoRemovableKey(q) == \A k \in QueryKeys(q) : ~RemovableKey(k)

\* what the two statements of C5 share: the other keys keep all their values,
\* no key is added, host, path and fragment are unchanged, and a second
\* application changes nothing
C5_Common ==
    /\ calls = 1 =>
        /\ \A k \in QueryKeys(arg.query) :
              ~RemovableKey(k) => ValuesOf(ret.query, k) = ValuesOf(arg.query, k)
        /\ QueryKeys(ret.query) \subseteq QueryKeys(arg.query)
        /\ ret.netloc = arg.netloc
        /\ ret.path = arg.path
        /\ ret.fragment = arg.fragment
        /\ NoRemovableKey(arg.query) => ret = arg
    /\ calls = 2 => ret = arg

\* C5 as stated: the result has no downscaling key, the scheme is unchanged
C5_Original ==
    /\ C5_Common
    /\ calls = 1 =>
        /\ NoRemovableKey(ret.query)
        /\ ret.scheme = arg.scheme

\* C5 amended: for a URL that urlparse accepts the result has no downscaling
\* key, the other keys keep all their values, host, path and fragment are
\* unchanged and the scheme is unchanged up to letter case (it comes back
\* lower-cased when a key was removed); a URL without such a key, or one that
\* urlparse rejects, is returned exactly as given; the function is idempotent.
C5_Amended ==
    /\ C5_Common
    /\ calls = 1 =>
        /\ ~UrlparseRaises(arg) => NoRemovableKey(ret.query)
        /\ UrlparseRaises(arg) => ret = arg
        /\ ret.scheme \in {arg.scheme, Lower(arg.scheme)}
        /\ (ret.scheme # arg.scheme) => ~NoRemovableKey(arg.query)

\* a key was removed and another key keeps its two values
C5_Witness ==
    /\ calls = 1
    /\ ~UrlparseRaises(arg)
    /\ ~NoRemovableKey(arg.query)
    /\ ret # arg
    /\ \E k \in QueryKeys(ret.query) : Len(ValuesOf(ret.query, k)) = 2
    /\ Len(ret.query) < Len(arg.query)

\* ---- C1
AllFailed(tries) == \A n \in 1..Len(tries) : ~tries[n]

\* story.json of the current story holds what download_current_story returns
StoryJsonWritten ==
    fs[story.folder].json =
        [written |-> ThisRun, image_count_found |-> story.image_count_found,
         images |-> story.images]

\* C1: every image gets one download attempt and a second one exactly when the
\* first failed; its record has downloaded = false exactly when all attempts
\* failed; a failed image does not end the story: every image found gets its
\* record and story.json is written.
C1_RetryOnce ==
    (story # NoStory) =>
        /\ Len(attempts) = Len(story.images)
        /\ \A k \in 1..Len(attempts) :
              /\ Len(attempts[k]) \in {1, 2}
              /\ Len(attempts[k]) = 2 <=> ~attempts[k][1]
              /\ ~story.images[k].downloaded <=> AllFailed(attempts[k])
        /\ pc # "failed"
        /\ (pc # "images" /\ ~story.skipped_existing_folder) =>
              /\ Len(story.images) = story.image_count_found
              /\ StoryJsonWritten

\* a story of two images: the first failed twice, the second was fetched by
\* the second attempt, and story.json is written
C1_Witness ==
    /\ story # NoStory
    /\ pc # "images"
    /\ attempts = << <<FALSE, FALSE>>, <<FALSE, TRUE>> >>
    /\ StoryJsonWritten
    /\ ~story.images[1].downloaded
    /\ story.images[2].downloaded

\* ---- C2
RaisingMisses    == {"story_cards_not_found", "login_no_username_field",
                     "login_no_password_field"}
ContinuingMisses == {"story_no_h1", "cannot_click_card"}
SelectorMisses   == RaisingMisses \cup ContinuingMisses

\* C2 as stated: every selector miss calls save_debug and raises a failure
\* that ends the run
C2_Original ==
    event \in SelectorMisses => (dbg.tag = event /\ pc = "failed")

\* C2 amended: every selector miss calls save_debug (the screenshot and the
\* HTML dump are each attempted); story cards not found and a missing username
\* or password field raise a failure that ends the run, while a story page
\* without h1 and a card that cannot be clicked do not: the story is handled
\* under the title "Untitled", the unclickable card is skipped and the loop
\* goes on.
C2_Amended ==
    /\ event \in SelectorMisses => dbg.tag = event
    /\ event \in RaisingMisses => pc = "failed"
    /\ event \in ContinuingMisses => pc \in {"loop", "finish", "images"}
    /\ event = "story_no_h1" => story.folder = "Untitled"

\* an unclickable first card of two: the loop goes on to the second
C2_Witness ==
    /\ event = "cannot_click_card"
    /\ dbg.tag = "cannot_click_card"
    /\ pc = "loop"
    /\ i = 1

\* ---- C3
FetchFailures == {"request_exception", "http_error"}

\* C3: a failed fetch ends main with the exception, and the output file is
\* neither created nor modified: it is absent if it was, and otherwise holds
\* what it held, now a file of an earlier run.
C3_FetchFailureKeepsFile ==
    /\ [](cfmFetch \in FetchFailures =>
            /\ cfmPc = "failed"
            /\ cfmFile = NoFile \/ cfmFile.written = EarlierRun)
    /\ [][cfmFetch' \in FetchFailures => cfmFile' = Aged(cfmFile)]_vars

\* a failed run after a successful one: the file of the earlier run is there
C3_Witness ==
    /\ cfmFetch = "http_error"
    /\ cfmPc = "failed"
    /\ cfmFile # NoFile
    /\ cfmFile.week_number = 52

\* ---- C6
\* C6: when SKIP_EXISTING_FOLDERS is set and the story's folder exists,
\* download_current_story does no scrape and no download, leaves every folder
\* as it is, and returns skipped_existing_folder = true, image_count_found = 0
\* and no images.
C6_SkipRule ==
    [][(pc = "story" /\ skipExisting /\ fs[story'.folder].exists) =>
          /\ story'.skipped_existing_folder
          /\ story'.scrapes = {}
          /\ story'.image_count_found = 0
          /\ story'.images = <<>>
          /\ attempts' = <<>>
          /\ fs' = fs
          /\ all_meta' = Append(all_meta,
                [folder |-> story'.folder, skipped_existing_folder |-> TRUE])
       ]_vars

\* a skipped story whose folder holds the story.json of an earlier run
C6_Witness ==
    /\ story # NoStory
    /\ story.skipped_existing_folder
    /\ skipExisting
    /\ fs[story.folder].json = OldStoryJson
    /\ story.scrapes = {}

\* ---- C7
\* the stories of this run are those the previous, successful run listed
SecondRunOverSameStories ==
    /\ pc = "finish"
    /\ lastRun = "done"
    /\ manifest # NoFile
    /\ all_meta # <<>>
    /\ manifest.folders = StoryFolders(all_meta)

RewrittenThisRun(f) == fs[f].json # NoFile /\ fs[f].json.written = ThisRun

\* C7 as stated: after two successful runs over the same stories every
\* story.json, the manifest and the weekly file hold the second run's content
C7_Original ==
    /\ SecondRunOverSameStories =>
          \A f \in StoryFolders(all_meta) : RewrittenThisRun(f)
    /\ pc = "done" => manifest.written = ThisRun
    /\ cfmPc = "done" => cfmFile.written = ThisRun

\* C7 amended: the weekly file and the manifest are overwritten by every
\* successful run. A story.json is rewritten by a run exactly when the run
\* handles a story of its folder without skipping it, and a story is skipped
\* only with SKIP_EXISTING_FOLDERS set: after two successful runs over the
\* same stories each story.json holds the second run's content when the flag
\* is off, and still the first run's content when it is on (the default).
C7_Amended ==
    /\ pc = "done" => manifest.written = ThisRun
    /\ cfmPc = "done" => cfmFile.written = ThisRun
    /\ pc \in {"finish", "done"} =>
          /\ \A f \in Folders :
                RewrittenThisRun(f) <=>
                    \E k \in 1..Len(all_meta) :
                        /\ all_meta[k].folder = f
                        /\ ~all_meta[k].skipped_existing_folder
          /\ \A k \in 1..Len(all_meta) :
                all_meta[k].skipped_existing_folder => skipExisting
    /\ (SecondRunOverSameStories /\ ~skipExisting) =>
          \A f \in StoryFolders(all_meta) : RewrittenThisRun(f)
    /\ (SecondRunOverSameStories /\ skipExisting) =>
          \A f \in StoryFolders(all_meta) : fs[f].json = OldStoryJson

\* the second of two successful runs over the same two stories, with the flag
\* set: both are skipped and keep the story.json of the first run
C7_Witness ==
    /\ SecondRunOverSameStories
    /\ skipExisting
    /\ StoryFolders(all_meta) = Folders
    /\ \A f \in Folders : fs[f].json = OldStoryJson

\* ---- C9
NotWrittenThisRun(file) == file = NoFile \/ file.written = EarlierRun

\* C9: a bounce to the login page after a click ends the run with an error at
\* that card: the only step after it is the start of a new run, neither the
\* manifest nor the zip is written in the run, and the folders and story.json
\* of the stories handled before stay on disk.
C9_LoginBounceAborts ==
    /\ [](event = "login_bounce_story" =>
            /\ pc = "failed"
            /\ NotWrittenThisRun(manifest)
            /\ NotWrittenThisRun(zip)
            /\ \A k \in 1..Len(all_meta) :
                  /\ fs[all_meta[k].folder].exists
                  /\ fs[all_meta[k].folder].json # NoFile
                  /\ ~all_meta[k].skipped_existing_folder =>
                        RewrittenThisRun(all_meta[k].folder))
    /\ [][pc = "failed" => (pc' \in {"grid", "login"} /\ lastRun' = "failed"
                             /\ all_meta' = <<>> /\ NotWrittenThisRun(manifest')
                             /\ NotWrittenThisRun(zip'))]_vars

\* the bounce comes at the second of two cards, after the first story was
\* downloaded, with the manifest of an earlier run on disk
C9_Witness ==
    /\ event = "login_bounce_story"
    /\ pc = "failed"
    /\ total = 2
    /\ i = 1
    /\ Len(all_meta) = 1
    /\ ~all_meta[1].skipped_existing_folder
    /\ manifest # NoFile

\* ---- C10
InLoop == pc \in {"loop", "card", "story", "images", "finish"}

\* C10: a card is clicked only after a reload of the grid that still shows
\* it (i below the count after the reload); when card i is gone the loop stops
\* and goes straight to the manifest and the zip, which are written, with
\* story_count_found_on_grid the count measured before the loop.
C10_CardGoneStopsLoop ==
    /\ [](/\ pc = "card" => (i < gridCount /\ i < total)
          /\ event = "count_changed" => (pc = "finish" /\ i >= gridCount)
          /\ pc = "done" =>
                /\ manifest.written = ThisRun
                /\ zip.written = ThisRun
                /\ manifest.story_count_found_on_grid = total)
    /\ [][/\ pc' = "card" => pc = "loop"
          /\ InLoop => total' = total
          /\ pc = "finish" => (pc' = "done" /\ i' = i /\ all_meta' = all_meta)
         ]_vars

\* two cards were counted, the first story was downloaded, the second card
\* was gone after the reload, and the manifest is written with the count 2
C10_Witness ==
    /\ pc = "done"
    /\ total = 2
    /\ i = 1
    /\ gridCount = 1
    /\ manifest.story_count_found_on_grid = 2
    /\ Len(manifest.stories) = 1
    /\ zip.written = ThisRun

====
